---- MODULE Spec2Model ----
\* Model of scripts/hiddenapi/analyze_bcpf.py: the scan of the build output for
\* "inconsistent flags" reports, the scan of the frameworks/base override
\* files against the signatures of the bootclasspath_fragment, and the
\* reporting of the planned file changes.
\*
\* Python str values are modelled as sequences of one-character strings, so
\* that startswith, removeprefix, split, rstrip, "in" and "<" are computed
\* character by character as Python computes them.
EXTENDS Integers, Sequences, FiniteSets, TLC

\* ------------------------------------------------------------------ bounds

\* Longest line stream one build operation produces.
MaxLines == 13
\* Most entries the frameworks/base/boot/hiddenapi directory holds.
MaxDirEntries == 2
\* Most lines an override flags file holds.
MaxFileLines == 2
\* Most lines the all-flags.csv file holds.
MaxAllFlagsLines == 2

\* ----------------------------------------------------------------- strings

\* "ERROR: Hidden API flags are inconsistent:"
INCONSISTENT_FLAGS ==
    <<"E", "R", "R", "O", "R", ":", " ", "H", "i", "d", "d", "e", "n", " ", "A", "P", "I", " ", "f", "l", "a", "g", "s", " ", "a", "r", "e", " ", "i", "n", "c", "o", "n", "s", "i", "s", "t", "e", "n", "t", ":">>

\* "< " and "> ", the prefixes of the two lines of a report entry.
ModulePrefix == <<"<", " ">>
MonolithicPrefix == <<">", " ">>

\* The name of the bootclasspath_fragment module (--bcpf): "bf".
bcpf == <<"b", "f">>
\* Directories module-info.json may give for a module: "art", "lib".
PathArt == <<"a", "r", "t">>
PathLib == <<"l", "i", "b">>

\* Lines of build output.
\* "< o/art/bf/f": a report header naming an output file of art/bf.
HeaderOwn ==
    <<"<", " ", "o", "/", "a", "r", "t", "/", "b", "f", "/", "f">>
\* "< o/lib/lf/f": a report header naming an output file of another module.
HeaderOther ==
    <<"<", " ", "o", "/", "l", "i", "b", "/", "l", "f", "/", "f">>
\* "> o/h"
HeaderPlatform ==
    <<">", " ", "o", "/", "h">>
\* "< A;->x,p,q"
ModuleA ==
    <<"<", " ", "A", ";", "-", ">", "x", ",", "p", ",", "q">>
\* "> A;->x,q"
PlatformA ==
    <<">", " ", "A", ";", "-", ">", "x", ",", "q">>
\* "> A;->x"
PlatformA2 ==
    <<">", " ", "A", ";", "-", ">", "x">>
\* "< B;->y"
ModuleB ==
    <<"<", " ", "B", ";", "-", ">", "y">>
\* "> B;->y,p"
PlatformB ==
    <<">", " ", "B", ";", "-", ">", "y", ",", "p">>

\* Signatures: "A;->x", "B;->y", "C;->z".
SigA == <<"A", ";", "-", ">", "x">>
SigB == <<"B", ";", "-", ">", "y">>
SigC == <<"C", ";", "-", ">", "z">>

\* "A;->x,p", "B;->y": lines of all-flags.csv.
AllFlagsA == <<"A", ";", "-", ">", "x", ",", "p">>
AllFlagsB == <<"B", ";", "-", ">", "y">>
\* ";->"
Arrow == <<";", "-", ">">>

\* ANDROID_BUILD_TOP + "/": "/t/"
top_dir == <<"/", "t", "/">>
\* "frameworks/base/boot/hiddenapi"
HiddenapiDir ==
    <<"f", "r", "a", "m", "e", "w", "o", "r", "k", "s", "/", "b", "a", "s", "e", "/", "b", "o", "o", "t", "/", "h", "i", "d", "d", "e", "n", "a", "p", "i">>
\* "hiddenapi-"
HiddenapiPrefix ==
    <<"h", "i", "d", "d", "e", "n", "a", "p", "i", "-">>
\* ".txt"
TxtSuffix ==
    <<".", "t", "x", "t">>
\* "hiddenapi/"
HiddenapiSlash ==
    <<"h", "i", "d", "d", "e", "n", "a", "p", "i", "/">>
\* "Android.bp"
AndroidBp ==
    <<"A", "n", "d", "r", "o", "i", "d", ".", "b", "p">>
\* "hiddenapi-max-target-o.txt"
MaxTargetO ==
    <<"h", "i", "d", "d", "e", "n", "a", "p", "i", "-", "m", "a", "x", "-", "t", "a", "r", "g", "e", "t", "-", "o", ".", "t", "x", "t">>
\* "hiddenapi-max-target-o-low-priority.txt"
MaxTargetOLowPriority ==
    <<"h", "i", "d", "d", "e", "n", "a", "p", "i", "-", "m", "a", "x", "-", "t", "a", "r", "g", "e", "t", "-", "o", "-", "l", "o", "w", "-", "p", "r", "i", "o", "r", "i", "t", "y", ".", "t", "x", "t">>
\* "hiddenapi-max-target-r-loprio.txt"
MaxTargetRLoprio ==
    <<"h", "i", "d", "d", "e", "n", "a", "p", "i", "-", "m", "a", "x", "-", "t", "a", "r", "g", "e", "t", "-", "r", "-", "l", "o", "p", "r", "i", "o", ".", "t", "x", "t">>
\* "hiddenapi-max-target-r-low-priority.txt"
MaxTargetRLowPriority ==
    <<"h", "i", "d", "d", "e", "n", "a", "p", "i", "-", "m", "a", "x", "-", "t", "a", "r", "g", "e", "t", "-", "r", "-", "l", "o", "w", "-", "p", "r", "i", "o", "r", "i", "t", "y", ".", "t", "x", "t">>
\* "hiddenapi-notes.md"
HiddenapiMd ==
    <<"h", "i", "d", "d", "e", "n", "a", "p", "i", "-", "n", "o", "t", "e", "s", ".", "m", "d">>
\* "README.txt"
ReadmeTxt ==
    <<"R", "E", "A", "D", "M", "E", ".", "t", "x", "t">>

\* OUT_DIR: "/t/o"
out_dir ==
    <<"/", "t", "/", "o">>
\* "soong/hiddenapi"
SoongHiddenapi ==
    <<"s", "o", "o", "n", "g", "/", "h", "i", "d", "d", "e", "n", "a", "p", "i">>
\* "soong/.intermediates"
SoongIntermediates ==
    <<"s", "o", "o", "n", "g", "/", ".", "i", "n", "t", "e", "r", "m", "e", "d", "i", "a", "t", "e", "s">>
\* "hiddenapi-flags.csv"
FlagsCsv ==
    <<"h", "i", "d", "d", "e", "n", "a", "p", "i", "-", "f", "l", "a", "g", "s", ".", "c", "s", "v">>
\* "all-flags.csv"
AllFlagsCsv ==
    <<"a", "l", "l", "-", "f", "l", "a", "g", "s", ".", "c", "s", "v">>
\* "/t/o/soong/.intermediates/lib/lf/f": an output file of another module.
OtherOutput ==
    <<"/", "t", "/", "o", "/", "s", "o", "o", "n", "g", "/", ".", "i", "n", "t", "e", "r", "m", "e", "d", "i", "a", "t", "e", "s", "/", "l", "i", "b", "/", "l", "f", "/", "f">>

\* The names the frameworks/base/boot/hiddenapi directory may hold.
DirNames ==
    { MaxTargetO, MaxTargetOLowPriority, MaxTargetRLoprio, HiddenapiMd,
      ReadmeTxt }

\* The lines a build operation may print, before the newline.
BuildLines ==
    { INCONSISTENT_FLAGS, <<>>, HeaderOwn, HeaderOther, HeaderPlatform,
      ModuleA, PlatformA, PlatformA2, ModuleB, PlatformB }

\* What readline returns for a line of text: the line and its newline.
\* At the end of the input readline returns "".
RawLine(text) == text \o <<"\n">>

\* ------------------------------------------------------ Python str methods

Whitespace == {" ", "\n", "\t", "\r"}

RECURSIVE rstrip(_)
rstrip(s) ==
    IF s # <<>> /\ s[Len(s)] \in Whitespace
    THEN rstrip(SubSeq(s, 1, Len(s) - 1))
    ELSE s

startswith(s, prefix) ==
    /\ Len(s) >= Len(prefix)
    /\ SubSeq(s, 1, Len(prefix)) = prefix

endswith(s, suffix) ==
    /\ Len(s) >= Len(suffix)
    /\ SubSeq(s, Len(s) - Len(suffix) + 1, Len(s)) = suffix

removeprefix(s, prefix) ==
    IF startswith(s, prefix) THEN SubSeq(s, Len(prefix) + 1, Len(s)) ELSE s

removesuffix(s, suffix) ==
    IF suffix # <<>> /\ endswith(s, suffix)
    THEN SubSeq(s, 1, Len(s) - Len(suffix))
    ELSE s

\* sub occurs in s at position i
At(s, sub, i) ==
    \A k \in 1..Len(sub) : s[i + k - 1] = sub[k]

\* sub in s
contains(s, sub) ==
    \E i \in 1..(Len(s) - Len(sub) + 1) : At(s, sub, i)

\* The positions of s where sep occurs.
Occurrences(s, sep) ==
    { i \in 1..(Len(s) - Len(sep) + 1) : At(s, sep, i) }

Min(S) == CHOOSE x \in S : \A y \in S : x <= y

\* s.split(sep)
RECURSIVE split(_, _)
split(s, sep) ==
    LET found == Occurrences(s, sep)
    IN  IF found = {}
        THEN <<s>>
        ELSE LET i == Min(found)
             IN  <<SubSeq(s, 1, i - 1)>>
                     \o split(SubSeq(s, i + Len(sep), Len(s)), sep)

\* s.replace(old, new) for a one-character old
replace(s, old, new) ==
    [i \in 1..Len(s) |-> IF s[i] = old THEN new ELSE s[i]]

\* The characters of the paths, in code point order.
CodePoints ==
    <<"-", ".", "/", "A", "B", "C", "D", "E", "F", "G", "H", "I", "J", "K", "L",
      "M", "N", "O", "P", "Q", "R", "S", "T", "U", "V", "W", "X", "Y", "Z", "_",
      "a", "b", "c", "d", "e", "f", "g", "h", "i", "j", "k", "l", "m", "n", "o",
      "p", "q", "r", "s", "t", "u", "v", "w", "x", "y", "z">>

ord(c) == CHOOSE i \in 1..Len(CodePoints) : CodePoints[i] = c

\* a < b on str: code point order at the first difference, a proper prefix
\* first.
str_lt(a, b) ==
    \E i \in 1..(Len(b)) :
        /\ i <= Len(a) + 1
        /\ SubSeq(a, 1, i - 1) = SubSeq(b, 1, i - 1)
        /\ \/ i = Len(a) + 1
           \/ ord(a[i]) < ord(b[i])

\* os.path.relpath(path, start) of a normalised path below start
relpath(path, start) == removeprefix(path, start)

\* os.path.join(a, b)
join(a, b) ==
    IF b # <<>> /\ b[1] = "/" THEN b
    ELSE IF a = <<>> \/ a[Len(a)] = "/" THEN a \o b
    ELSE a \o <<"/">> \o b

\* ------------------------------------------------------------------- state

VARIABLES
    pc,            \* where the run is
    error,         \* the exception that ended the run, "" while it runs
    module_info,   \* ModuleInfo.modules: module name -> list of paths
    stage,         \* the file being built: "module_info", "stubs" or "flags"
    nread,         \* lines the current build operation has printed so far
    eof,           \* the lines iterator of the build operation is exhausted
    diffs,         \* build_hiddenapi_flags: diffs
    significant,   \* scan_inconsistent_flags_report: significant
    scan_diffs,    \* scan_inconsistent_flags_report: diffs
    triple,        \* the lines the last step of zip(lines, lines, lines) took
    sections,      \* the report sections read from the current build output
    markers,       \* marker lines read from the current build output
    scanned,       \* the lines of the flags file read last
    returncode,    \* BuildOperation.returncode, -1 for None
    signatures,    \* BcpfAnalyzer._signatures
    classes,       \* BcpfAnalyzer._classes
    todo,          \* check_frameworks_base_boot_hidden_api_files: names to visit
    result,        \* Result
    rendered,      \* the file changes reported to the user, in order
    removed        \* the directories shutil.rmtree was called with, in order

vars == <<pc, error, module_info, stage, nread, eof, diffs, significant,
          scan_diffs, triple, sections, markers, scanned, returncode,
          signatures, classes, todo, result, rendered, removed>>

\* typing.Optional[dict]: None, or a dict from signature to a pair of lists.
None == [isNone |-> TRUE, map |-> <<>>]
Some(d) == [isNone |-> FALSE, map |-> d]
\* bool(x) of an Optional[dict]
Truthy(x) == ~x.isNone /\ DOMAIN x.map # {}

\* d[key] = value
DictSet(d, key, value) ==
    [k \in DOMAIN d \cup {key} |-> IF k = key THEN value ELSE d[k]]

\* --------------------------------------------------------------- LineStream

\* What readline may return for the lines the build operations print; one of
\* them carries trailing blanks.
RawLines ==
    { RawLine(text) : text \in BuildLines } \cup { ModuleA \o <<" ", "\n">> }

\* newline_stripping_iter: iter(readline, "") ends at the first "" that
\* readline returns; each line before it has its trailing white space removed.
newline_stripping_iter(reads) ==
    LET stops == { i \in 1..Len(reads) : reads[i] = <<>> }
        n == IF stops = {} THEN Len(reads) ELSE Min(stops) - 1
    IN  [i \in 1..n |-> rstrip(reads[i])]

\* What the iterator over a build operation's output gives for one to three
\* lines of output followed by the end of the output.
LineGroups ==
    [k \in 0..3 |-> { newline_stripping_iter(r \o << <<>> >>) :
                         r \in [1..k -> RawLines] }]

\* The lines that n successive next(lines) may give: n lines, or fewer when
\* the output ends first. An exhausted iterator gives nothing.
Taken(n) ==
    IF eof THEN { <<>> }
    ELSE LET most == IF n < MaxLines - nread THEN n ELSE MaxLines - nread
         IN  UNION { LineGroups[k] : k \in 0..most }

\* --------------------------------------------------------- the run's end

\* An exception nobody catches, or sys.exit: the run is over and its frames
\* are gone. The Result built so far is kept for inspection.
Abort(e) ==
    /\ pc' = "aborted"
    /\ error' = e
    /\ nread' = 0
    /\ eof' = FALSE
    /\ diffs' = None
    /\ significant' = FALSE
    /\ scan_diffs' = <<>>
    /\ sections' = <<>>
    /\ todo' = <<>>
    /\ UNCHANGED <<module_info, stage, signatures, classes, result, rendered>>

\* ------------------------------------------------------------ ModuleInfo

\* ModuleInfo.module_path: the single path of the module. "ok" is FALSE where
\* the code raises (module unknown, or more than one distinct path).
module_path(info, module_name) ==
    IF module_name \notin DOMAIN info
    THEN [ok |-> FALSE, path |-> <<>>]
    ELSE LET paths == info[module_name]
         IN  IF Cardinality({ paths[i] : i \in 1..Len(paths) }) # 1
             THEN [ok |-> FALSE, path |-> <<>>]
             ELSE [ok |-> TRUE, path |-> paths[1]]

\* ------------------------------------------------- InconsistencyReportParser

\* check_inconsistent_flag_lines without the test of the monolithic line.
check_inconsistent_flag_lines_module_only(is_significant, module_line, monolithic_line, separator_line) ==
    /\ startswith(module_line, ModulePrefix)
    /\ separator_line = <<>>

\* check_inconsistent_flag_lines without the test of the separator line.
check_inconsistent_flag_lines_any_separator(is_significant, module_line, monolithic_line, separator_line) ==
    /\ startswith(module_line, ModulePrefix)
    /\ startswith(monolithic_line, MonolithicPrefix)

\* check_inconsistent_flag_lines: TRUE when the lines pass, FALSE when the
\* code reports "Invalid build output detected" and calls sys.exit(1).
check_inconsistent_flag_lines(is_significant, module_line, monolithic_line, separator_line) ==
    /\ startswith(module_line, ModulePrefix)
    /\ startswith(monolithic_line, MonolithicPrefix)
    /\ separator_line = <<>>

\* The significance of a section: os.path.join(bcpf_dir, self.bcpf) in
\* module_line.
IsSignificant(module_line) ==
    contains(module_line, join(module_path(module_info, bcpf).path, bcpf))

\* line.removeprefix(prefix).split(",")
Parts(line, prefix) == split(removeprefix(line, prefix), <<",">>)

\* build_file_read_output followed by "diffs = {}" in place of "diffs = None".
build_file_read_output_empty_dict(next_stage) ==
    /\ UNCHANGED removed
    /\ stage' = next_stage
    /\ nread' = 0
    /\ eof' = FALSE
    /\ diffs' = Some(<<>>)
    /\ sections' = <<>>
    /\ triple' = <<>>
    /\ returncode' = -1
    /\ markers' = 0
    /\ pc' = "for"
    /\ UNCHANGED scanned
    /\ UNCHANGED <<error, module_info, significant, scan_diffs, signatures,
                   classes, todo, result, rendered>>

\* build_file_read_output: start the build operation for the stage's file.
build_file_read_output(next_stage) ==
    /\ UNCHANGED removed
    /\ stage' = next_stage
    /\ nread' = 0
    /\ eof' = FALSE
    /\ diffs' = None
    /\ sections' = <<>>
    /\ triple' = <<>>
    /\ returncode' = -1
    /\ markers' = 0
    /\ pc' = "for"
    /\ UNCHANGED scanned
    /\ UNCHANGED <<error, module_info, significant, scan_diffs, signatures,
                   classes, todo, result, rendered>>

\* build_hiddenapi_flags: one turn of "for line in lines", up to the call of
\* scan_inconsistent_flags_report when the line is the marker.
ForLine ==
    /\ UNCHANGED removed
    /\ pc = "for"
    /\ stage \in {"stubs", "flags"}
    /\ \E got \in Taken(1) :
          IF got = <<>>
          THEN /\ eof' = TRUE
               /\ pc' = "wait"
               /\ UNCHANGED nread
          ELSE /\ nread' = nread + 1
               /\ pc' = IF got[1] = INCONSISTENT_FLAGS
                        THEN "scan_header" ELSE "for"
               /\ UNCHANGED eof
    /\ markers' = markers + (IF pc' = "scan_header" THEN 1 ELSE 0)
    /\ UNCHANGED scanned
    /\ UNCHANGED <<error, module_info, stage, diffs, significant, scan_diffs,
                   triple, sections, returncode, signatures, classes, todo,
                   result, rendered>>

\* ScanHeader with "next(triples, None)" and a return of the marker line when
\* the output has ended: the caller's "while" tests the marker again.
ScanHeader_returns_marker_at_end ==
    /\ UNCHANGED removed
    /\ pc = "scan_header"
    /\ UNCHANGED <<returncode, scanned>>
    /\ \E got \in Taken(3) :
          /\ triple' = got
          /\ markers' = markers + Cardinality(
                 { i \in 1..Len(got) : got[i] = INCONSISTENT_FLAGS })
          /\ IF Len(got) < 3
             THEN /\ eof' = TRUE
                  /\ nread' = nread + Len(got)
                  /\ pc' = "scan_header"
                  /\ UNCHANGED <<error, module_info, stage, diffs, significant,
                                 scan_diffs, sections, signatures, classes,
                                 todo, result, rendered>>
             ELSE IF ~check_inconsistent_flag_lines(IsSignificant(got[1]),
                                                    got[1], got[2], got[3])
             THEN Abort("SystemExit")
             ELSE /\ significant' = IsSignificant(got[1])
                  /\ scan_diffs' = <<>>
                  /\ sections' = Append(sections,
                         [significant |-> IsSignificant(got[1]),
                          body |-> <<>>])
                  /\ nread' = nread + 3
                  /\ pc' = "scan_body"
                  /\ UNCHANGED <<error, module_info, stage, eof, diffs,
                                 signatures, classes, todo, result, rendered>>

\* scan_inconsistent_flags_report up to the body loop: next(triples) takes the
\* header triple; zip raises StopIteration out of the function when the
\* output ends inside it.
ScanHeader ==
    /\ UNCHANGED removed
    /\ pc = "scan_header"
    /\ UNCHANGED <<returncode, scanned>>
    /\ \E got \in Taken(3) :
          /\ triple' = got
          /\ markers' = markers + Cardinality(
                 { i \in 1..Len(got) : got[i] = INCONSISTENT_FLAGS })
          /\ IF Len(got) < 3
             THEN Abort("StopIteration")
             ELSE IF ~check_inconsistent_flag_lines(IsSignificant(got[1]),
                                                    got[1], got[2], got[3])
             THEN Abort("SystemExit")
             ELSE /\ significant' = IsSignificant(got[1])
                  /\ scan_diffs' = <<>>
                  /\ sections' = Append(sections,
                         [significant |-> IsSignificant(got[1]),
                          body |-> <<>>])
                  /\ nread' = nread + 3
                  /\ pc' = "scan_body"
                  /\ UNCHANGED <<error, module_info, stage, eof, diffs,
                                 signatures, classes, todo, result, rendered>>

\* Recorded with the two lists of flags exchanged.
Recorded_exchanged(d, is_significant, module_line, monolithic_line) ==
    LET module_parts == Parts(module_line, ModulePrefix)
        monolithic_parts == Parts(monolithic_line, MonolithicPrefix)
    IN  DictSet(d, module_parts[1], <<Tail(monolithic_parts), Tail(module_parts)>>)

\* The dict scan_inconsistent_flags_report holds after the body triple
\* (module_line, monolithic_line, _) was recorded.
Recorded(d, is_significant, module_line, monolithic_line) ==
    LET module_parts == Parts(module_line, ModulePrefix)
        monolithic_parts == Parts(monolithic_line, MonolithicPrefix)
    IN  DictSet(d, module_parts[1], <<Tail(module_parts), Tail(monolithic_parts)>>)

\* Resume with "if line == _INCONSISTENT_FLAGS" tested once, before the call.
Resume_without_loop(separator_line) == "for"

\* Where build_hiddenapi_flags goes on when scan_inconsistent_flags_report
\* returned a separator line that is not empty: "while line ==
\* _INCONSISTENT_FLAGS" scans again when the line is the marker, and the
\* "for" loop takes the next line otherwise.
Resume(separator_line) ==
    IF separator_line = INCONSISTENT_FLAGS THEN "scan_header" ELSE "for"

\* ScanBody with "return separator_line, diffs" outside the test of the
\* separator line: the first body triple ends the section.
ScanBody_returns_at_every_separator ==
    /\ UNCHANGED removed
    /\ pc = "scan_body"
    /\ UNCHANGED <<returncode, scanned>>
    /\ \E got \in Taken(3) :
          /\ triple' = got
          /\ markers' = markers + Cardinality(
                 { i \in 1..Len(got) : got[i] = INCONSISTENT_FLAGS })
          /\ IF Len(got) < 3
             THEN \* zip ends the loop: return "", diffs
                  /\ eof' = TRUE
                  /\ nread' = nread + Len(got)
                  /\ diffs' = Some(scan_diffs)
                  /\ pc' = "for"
                  /\ UNCHANGED <<error, module_info, stage, significant,
                                 scan_diffs, sections, signatures, classes,
                                 todo, result, rendered>>
             ELSE IF ~check_inconsistent_flag_lines(significant, got[1],
                                                    got[2], <<>>)
             THEN Abort("SystemExit")
             ELSE IF Parts(got[1], ModulePrefix)[1]
                         # Parts(got[2], MonolithicPrefix)[1]
             THEN Abort("SystemExit")
             ELSE LET d == Recorded(scan_diffs, significant, got[1], got[2])
                      n == Len(sections)
                  IN  /\ scan_diffs' = d
                      /\ sections' = [sections EXCEPT ![n].body =
                                         Append(@, <<got[1], got[2]>>)]
                      /\ nread' = nread + 3
                      /\ diffs' = Some(d)
                      /\ pc' = Resume(got[3])
                      /\ UNCHANGED <<error, module_info, stage, eof,
                                     significant, signatures, classes, todo,
                                     result, rendered>>

\* One turn of "for ... in triples" of scan_inconsistent_flags_report, and
\* the return to "while line == _INCONSISTENT_FLAGS" when the loop ends.
ScanBody ==
    /\ UNCHANGED removed
    /\ pc = "scan_body"
    /\ UNCHANGED <<returncode, scanned>>
    /\ \E got \in Taken(3) :
          /\ triple' = got
          /\ markers' = markers + Cardinality(
                 { i \in 1..Len(got) : got[i] = INCONSISTENT_FLAGS })
          /\ IF Len(got) < 3
             THEN \* zip ends the loop: return "", diffs
                  /\ eof' = TRUE
                  /\ nread' = nread + Len(got)
                  /\ diffs' = Some(scan_diffs)
                  /\ pc' = "for"
                  /\ UNCHANGED <<error, module_info, stage, significant,
                                 scan_diffs, sections, signatures, classes,
                                 todo, result, rendered>>
             ELSE IF ~check_inconsistent_flag_lines(significant, got[1],
                                                    got[2], <<>>)
             THEN Abort("SystemExit")
             ELSE IF Parts(got[1], ModulePrefix)[1]
                         # Parts(got[2], MonolithicPrefix)[1]
             THEN Abort("SystemExit")
             ELSE LET d == Recorded(scan_diffs, significant, got[1], got[2])
                      n == Len(sections)
                  IN  /\ scan_diffs' = d
                      /\ sections' = [sections EXCEPT ![n].body =
                                         Append(@, <<got[1], got[2]>>)]
                      /\ nread' = nread + 3
                      /\ IF got[3] # <<>>
                         THEN \* return separator_line, diffs
                              /\ diffs' = Some(d)
                              /\ pc' = Resume(got[3])
                         ELSE /\ pc' = "scan_body"
                              /\ UNCHANGED diffs
                      /\ UNCHANGED <<error, module_info, stage, eof,
                                     significant, signatures, classes, todo,
                                     result, rendered>>

\* ---------------------------------------------------------------- analyze

\* The override files, the fragment's own flags file and its Android.bp, and
\* output files of the build: of out/soong/hiddenapi, of the fragment and of
\* another module.
SourceFiles ==
    { join(join(top_dir, HiddenapiDir), name) : name \in DirNames }
        \cup { join(join(top_dir, PathArt),
                    HiddenapiSlash \o MaxTargetOLowPriority),
               join(join(top_dir, PathArt), AndroidBp) }

OutputFiles ==
    { join(join(out_dir, SoongHiddenapi), FlagsCsv),
      join(join(join(join(out_dir, SoongIntermediates), PathArt), bcpf),
           AllFlagsCsv),
      OtherOutput }

Tree == SourceFiles \cup OutputFiles

\* shutil.rmtree(dir, ignore_errors=True): what is left of the files.
rmtree(tree, dir) ==
    { f \in tree : ~startswith(f, dir \o <<"/">>) }

\* module_out_dir with the module's source directory in place of its
\* directory below out/soong/.intermediates.
module_out_dir_in_source(module_name) ==
    join(top_dir, module_path(module_info, module_name).path)

\* module_out_dir
module_out_dir(module_name) ==
    join(join(join(out_dir, SoongIntermediates),
              module_path(module_info, module_name).path),
         module_name)

\* The files that hold what they held when the run began: those no call of
\* shutil.rmtree has removed.
RECURSIVE Left(_, _)
Left(tree, dirs) ==
    IF dirs = <<>> THEN tree
    ELSE Left(rmtree(tree, dirs[1]), Tail(dirs))

files == Left(Tree, removed)

\* What module-info.json may hold for the module: one path, two different
\* paths, or no entry.
ModuleInfos ==
    { [m \in {bcpf} |-> <<PathArt>>],
      [m \in {bcpf} |-> <<PathArt, PathLib>>],
      <<>> }

EmptyResult ==
    [diffs |-> None, property_changes |-> <<>>, file_changes |-> <<>>]

Init ==
    /\ pc = "load_module_info"
    /\ error = ""
    /\ module_info = <<>>
    /\ stage = ""
    /\ nread = 0
    /\ eof = FALSE
    /\ diffs = None
    /\ significant = FALSE
    /\ scan_diffs = <<>>
    /\ triple = <<>>
    /\ sections = <<>>
    /\ markers = 0
    /\ scanned = <<>>
    /\ returncode = -1
    /\ signatures = {}
    /\ classes = {}
    /\ todo = <<>>
    /\ result = EmptyResult
    /\ rendered = <<>>
    /\ removed = <<>>

\* load_module_info: start the build of module-info.json.
LoadModuleInfo ==
    /\ pc = "load_module_info"
    /\ build_file_read_output("module_info")

\* load_module_info: "for line in lines" only logs the line.
LogLine ==
    /\ UNCHANGED removed
    /\ pc = "for"
    /\ stage = "module_info"
    /\ \E got \in Taken(1) :
          IF got = <<>>
          THEN /\ eof' = TRUE
               /\ pc' = "wait"
               /\ UNCHANGED nread
          ELSE /\ nread' = nread + 1
               /\ UNCHANGED <<eof, pc>>
    /\ UNCHANGED <<markers, scanned>>
    /\ UNCHANGED <<error, module_info, stage, diffs, significant, scan_diffs,
                   triple, sections, returncode, signatures, classes, todo,
                   result, rendered>>

\* output.wait(timeout=10) and what follows it in load_module_info and in
\* build_hiddenapi_flags with its callers build_monolithic_stubs_flags and
\* build_monolithic_flags. exited is FALSE when the process is still running
\* after the timeout; code is its exit status otherwise. The function returns
\* and its build operation and locals are gone.
Wait(exited, code) ==
    /\ UNCHANGED removed
    /\ pc = "wait"
    /\ triple' = <<>>
    /\ UNCHANGED <<markers, scanned>>
    /\ IF ~exited
       THEN Abort("TimeoutExpired") /\ UNCHANGED returncode
       ELSE /\ returncode' = code
            /\ IF stage = "module_info"
               THEN IF code # 0
                    THEN Abort("Exception")
                    ELSE /\ module_info' \in ModuleInfos
                         /\ pc' = "clean"
                         /\ nread' = 0
                         /\ eof' = FALSE
                         /\ UNCHANGED <<error, stage, diffs, significant,
                                        scan_diffs, sections, signatures,
                                        classes, todo, result, rendered>>
               ELSE \* build_hiddenapi_flags: return diffs
                    /\ result' = IF stage = "flags"
                                 THEN [result EXCEPT !.diffs = diffs]
                                 ELSE result
                    /\ pc' = IF stage = "flags"
                             THEN "load_all_flags" ELSE "build_monolithic_flags"
                    /\ diffs' = None
                    /\ significant' = FALSE
                    /\ scan_diffs' = <<>>
                    /\ sections' = <<>>
                    /\ nread' = 0
                    /\ eof' = FALSE
                    /\ UNCHANGED <<error, module_info, stage, signatures,
                                   classes, todo, rendered>>

\* analyze: remove the stale output files; module_out_dir needs the path of
\* the module and raises when module-info.json does not give one.
Clean ==
    /\ pc = "clean"
    /\ IF ~module_path(module_info, bcpf).ok
       THEN /\ Abort("Exception")
            /\ removed' = Append(removed, join(out_dir, SoongHiddenapi))
       ELSE /\ pc' = "build_monolithic_stubs_flags"
            /\ removed' = removed \o << join(out_dir, SoongHiddenapi),
                                        module_out_dir(bcpf) >>
            /\ UNCHANGED <<error, module_info, stage, nread, eof, diffs,
                           significant, scan_diffs, sections, signatures,
                           classes, todo, result, rendered>>
    /\ UNCHANGED <<triple, returncode, markers, scanned>>

build_monolithic_stubs_flags ==
    /\ pc = "build_monolithic_stubs_flags"
    /\ build_file_read_output("stubs")

build_monolithic_flags ==
    /\ pc = "build_monolithic_flags"
    /\ build_file_read_output("flags")

\* ---------------------------------------------------------- SignatureCatalog

\* The signatures property with "if self._signatures is None" in place of
\* "if not self._signatures": an empty set is returned.
signatures_property_returns_empty ==
    [raises |-> FALSE, value |-> signatures]

\* The signatures property: raises "signatures has not been initialized" when
\* the set is empty, gives the set otherwise.
signatures_property ==
    [raises |-> signatures = {}, value |-> signatures]

\* The classes property: raises "classes has not been initialized" when the
\* set is empty, gives the set otherwise.
classes_property ==
    [raises |-> classes = {}, value |-> classes]

line_to_signature(line) == split(line, <<",">>)[1]

signature_to_class(signature) == split(signature, Arrow)[1]

\* The text files of the model: at most n lines, each from the set given,
\* as the successive results of readline.
TextFiles(lines, n) ==
    UNION { [1..k -> { RawLine(text) : text \in lines }] : k \in 0..n }

\* The body of load_all_flags; the caller goes on at return_to. found is
\* whether the fragment's output directory holds all-flags.csv.
LoadAllFlags(found, return_to) ==
    /\ UNCHANGED removed
    /\ returncode' = -1
    /\ markers' = 0
    /\ UNCHANGED scanned
    /\ IF ~found
       THEN Abort("Exception")
       ELSE \E f \in TextFiles({AllFlagsA, AllFlagsB}, MaxAllFlagsLines) :
              LET lines == newline_stripping_iter(f \o << <<>> >>)
                  sigs == { line_to_signature(lines[i]) : i \in 1..Len(lines) }
              IN  /\ signatures' = signatures \cup sigs
                  /\ classes' = classes \cup
                                   { signature_to_class(x) : x \in sigs }
                  /\ pc' = return_to
                  /\ UNCHANGED <<error, module_info, stage, nread, eof, diffs,
                                 significant, scan_diffs, sections, todo,
                                 result, rendered>>
    /\ UNCHANGED triple

\* load_all_flags with a second call of self.load_all_flags() after the
\* first: the first call comes back to the second.
load_all_flags_called_twice(found) ==
    /\ pc = "load_all_flags"
    /\ LoadAllFlags(found, IF returncode # -1 THEN "load_all_flags"
                           ELSE IF Truthy(result.diffs)
                           THEN "check_files" ELSE "manifest")

\* build_monolithic_flags: the call of load_all_flags and the test of
\* result.diffs that follows it.
load_all_flags(found) ==
    /\ pc = "load_all_flags"
    /\ LoadAllFlags(found, IF Truthy(result.diffs)
                           THEN "check_files" ELSE "manifest")

\* -------------------------------------------------------- OverrideFileScanner

\* sorted(names) of a set of distinct str
RECURSIVE sorted(_)
sorted(S) ==
    IF S = {} THEN <<>>
    ELSE LET least == CHOOSE x \in S : \A y \in S \ {x} : str_lt(x, y)
         IN  <<least>> \o sorted(S \ {least})

\* The orders in which the elements of a set may be iterated.
Orders(S) ==
    { f \in [1..Cardinality(S) -> S] : \A i, j \in DOMAIN f : f[i] = f[j] => i = j }

\* sep.join(parts)
RECURSIVE str_join(_, _)
str_join(sep, parts) ==
    IF parts = <<>> THEN <<>>
    ELSE IF Len(parts) = 1 THEN parts[1]
    ELSE parts[1] \o sep \o str_join(sep, Tail(parts))

\* textwrap.indent(text, prefix): the prefix before every line that is not
\* only white space.
textwrap_indent(text, prefix) ==
    LET lines == split(text, <<"\n">>)
    IN  str_join(<<"\n">>,
                 [i \in 1..Len(lines) |->
                     IF rstrip(lines[i]) = <<>> THEN lines[i]
                     ELSE prefix \o lines[i]])

\* The indentation of the entries in a description: 12 blanks.
EntryIndent == [i \in 1..12 |-> " "]

\* new_file_change
new_file_change(file, description) ==
    [path |-> relpath(file, top_dir), description |-> description]

\* Renamed with the first of the two names only.
Renamed_first_only(basename) ==
    IF basename = MaxTargetO THEN MaxTargetOLowPriority
    ELSE basename

\* The renaming of the two legacy file names in
\* check_frameworks_base_boot_hidden_api_files.
Renamed(basename) ==
    IF basename = MaxTargetO THEN MaxTargetOLowPriority
    ELSE IF basename = MaxTargetRLoprio THEN MaxTargetRLowPriority
    ELSE basename

\* The property name check_frameworks_base_boot_hidden_api_files derives.
PropertyName(basename) ==
    replace(removesuffix(removeprefix(basename, HiddenapiPrefix), TxtSuffix),
            "-", "_")

\* The names check_frameworks_base_boot_hidden_api_files does not skip.
IsFlagsFile(basename) ==
    startswith(basename, HiddenapiPrefix) /\ endswith(basename, TxtSuffix)

\* Matched without the test "signature in self.signatures".
Matched_every_line(lines) ==
    { lines[i] : i \in 1..Len(lines) }

\* matched_signatures of report_hidden_api_flag_file_changes for the lines of
\* the flags file.
Matched(lines) ==
    { lines[i] : i \in 1..Len(lines) } \cap signatures_property.value

\* WithChanges without the file change of the fragment's own file.
WithChanges_remove_only(r, property_name, flags_file, rel_bcpf_flags_file, bcpf_flags_file, order) ==
    LET insert == textwrap_indent(str_join(<<"\n">>, order), EntryIndent)
    IN  [r EXCEPT
           !.file_changes = Append(@,
               new_file_change(flags_file,
                   [text |-> "Remove the following entries:",
                    insert |-> insert])),
           !.property_changes = Append(@,
               [property_name |-> property_name,
                values |-> <<rel_bcpf_flags_file>>,
                property_comment |-> <<>>])]

\* The Result report_hidden_api_flag_file_changes leaves when
\* matched_signatures is not empty and is iterated in the given order.
WithChanges(r, property_name, flags_file, rel_bcpf_flags_file, bcpf_flags_file, order) ==
    LET insert == textwrap_indent(str_join(<<"\n">>, order), EntryIndent)
    IN  [r EXCEPT
           !.file_changes = @ \o
              << new_file_change(flags_file,
                     [text |-> "Remove the following entries:",
                      insert |-> insert]),
                 new_file_change(bcpf_flags_file,
                     [text |-> "Add the following entries:",
                      insert |-> insert]) >>,
           !.property_changes = Append(@,
               [property_name |-> property_name,
                values |-> <<rel_bcpf_flags_file>>,
                property_comment |-> <<>>])]

\* ListDir with "os.listdir(hiddenapi_dir)" in place of
\* "sorted(os.listdir(hiddenapi_dir))": the names come in any order.
ListDir_unsorted ==
    /\ UNCHANGED removed
    /\ pc = "check_files"
    /\ \E names \in SUBSET DirNames :
          /\ Cardinality(names) <= MaxDirEntries
          /\ todo' \in Orders(names)
          /\ pc' = IF names = {} THEN "manifest" ELSE "scan_file"
    /\ UNCHANGED <<markers, scanned>>
    /\ UNCHANGED <<error, module_info, stage, nread, eof, diffs, significant,
                   scan_diffs, triple, sections, returncode, signatures,
                   classes, result, rendered>>

\* check_frameworks_base_boot_hidden_api_files up to its loop: the sorted
\* listing of frameworks/base/boot/hiddenapi.
ListDir ==
    /\ UNCHANGED removed
    /\ pc = "check_files"
    /\ \E names \in SUBSET DirNames :
          /\ Cardinality(names) <= MaxDirEntries
          /\ todo' = sorted(names)
          /\ pc' = IF names = {} THEN "manifest" ELSE "scan_file"
    /\ UNCHANGED <<markers, scanned>>
    /\ UNCHANGED <<error, module_info, stage, nread, eof, diffs, significant,
                   scan_diffs, triple, sections, returncode, signatures,
                   classes, result, rendered>>

\* One turn of the loop of check_frameworks_base_boot_hidden_api_files, with
\* its call of report_hidden_api_flag_file_changes. Reading self.signatures
\* raises when the set is empty.
ScanFile ==
    /\ UNCHANGED removed
    /\ pc = "scan_file"
    /\ UNCHANGED <<triple, returncode, markers>>
    /\ LET basename == Head(todo)
           flags_file == join(join(top_dir, HiddenapiDir), basename)
           property_name == PropertyName(Renamed(basename))
           rel_bcpf_flags_file == HiddenapiSlash \o Renamed(basename)
           bcpf_dir == module_path(module_info, bcpf).path
           bcpf_flags_file ==
               join(join(top_dir, bcpf_dir), rel_bcpf_flags_file)
           after == IF Len(todo) = 1 THEN "manifest" ELSE "scan_file"
       IN  IF ~IsFlagsFile(basename)
           THEN /\ todo' = Tail(todo)
                /\ pc' = after
                /\ scanned' = <<>>
                /\ UNCHANGED <<error, module_info, stage, nread, eof, diffs,
                               significant, scan_diffs, sections, signatures,
                               classes, result, rendered>>
           ELSE \E f \in TextFiles({SigA, SigB, SigC}, MaxFileLines) :
                  LET lines == newline_stripping_iter(f \o << <<>> >>)
                  IN  IF lines # <<>> /\ signatures_property.raises
                      THEN Abort("Exception") /\ scanned' = lines
                      ELSE /\ todo' = Tail(todo)
                           /\ scanned' = lines
                           /\ pc' = after
                           /\ IF Matched(lines) = {}
                              THEN UNCHANGED result
                              ELSE \E order \in Orders(Matched(lines)) :
                                     result' = WithChanges(result,
                                         property_name, flags_file,
                                         rel_bcpf_flags_file, bcpf_flags_file,
                                         order)
                           /\ UNCHANGED <<error, module_info, stage, nread,
                                          eof, diffs, significant, scan_diffs,
                                          sections, signatures, classes,
                                          rendered>>

\* ------------------------------------------- ChangePlanBuilder, ReportRenderer

\* format_comment_as_text for a comment that fits one line; no comment, no
\* text.
format_comment_as_text(text, indent) ==
    IF text = <<>> THEN <<>>
    ELSE indent \o <<"/", "/", " ">> \o text \o <<"\n">>

\* The lines of the values of a property in HiddenApiPropertyChange.snippet.
RECURSIVE ValueLines(_, _)
ValueLines(values, indent) ==
    IF values = <<>> THEN <<>>
    ELSE indent \o <<" ", " ", " ", " ", "\"">> \o values[1]
             \o <<"\"", ",", "\n">> \o ValueLines(Tail(values), indent)

\* HiddenApiPropertyChange.snippet
snippet(change, indent) ==
    <<"\n">>
        \o format_comment_as_text(change.property_comment, indent)
        \o indent \o change.property_name \o <<":", " ", "[">>
        \o (IF change.values # <<>>
            THEN <<"\n">> \o ValueLines(change.values, indent) \o indent
            ELSE <<>>)
        \o <<"]", ",", "\n">>

\* s.strip("\n")
RECURSIVE lstrip_newlines(_)
lstrip_newlines(s) ==
    IF s # <<>> /\ s[1] = "\n" THEN lstrip_newlines(Tail(s)) ELSE s

RECURSIVE rstrip_newlines(_)
rstrip_newlines(s) ==
    IF s # <<>> /\ s[Len(s)] = "\n"
    THEN rstrip_newlines(SubSeq(s, 1, Len(s) - 1))
    ELSE s

strip_newlines(s) == rstrip_newlines(lstrip_newlines(s))

\* The indentation analyze gives the properties: 8 blanks.
PropertyIndent == [i \in 1..8 |-> " "]

\* Snippets with "hiddenapi_snippet = ..." in place of "hiddenapi_snippet += ...".
Snippets_last_only(changes) ==
    IF changes = <<>> THEN <<>>
    ELSE snippet(changes[Len(changes)], PropertyIndent)

\* hiddenapi_snippet of analyze
RECURSIVE Snippets(_)
Snippets(changes) ==
    IF changes = <<>> THEN <<>>
    ELSE snippet(changes[1], PropertyIndent) \o Snippets(Tail(changes))

hiddenapi_snippet(changes) == strip_newlines(Snippets(changes))

\* analyze, after build_monolithic_flags: the change of the Android.bp file
\* when there are property changes.
Manifest ==
    /\ UNCHANGED removed
    /\ pc = "manifest"
    /\ pc' = "report"
    /\ scanned' = <<>>
    /\ UNCHANGED markers
    /\ IF result.property_changes # <<>>
       THEN LET bcpf_dir == module_path(module_info, bcpf).path
                bcpf_bp_file == join(join(top_dir, bcpf_dir), AndroidBp)
            IN  result' = [result EXCEPT !.file_changes = Append(@,
                    new_file_change(bcpf_bp_file,
                        [text |-> "Add the following snippet",
                         insert |->
                            hiddenapi_snippet(result.property_changes)]))]
       ELSE UNCHANGED result
    /\ UNCHANGED <<error, module_info, stage, nread, eof, diffs, significant,
                   scan_diffs, triple, sections, returncode, signatures,
                   classes, todo, rendered>>

\* FileChange.__lt__ with "<=" in place of "<".
FileChange_le(self, other) == ~str_lt(other.path, self.path)

\* FileChange.__lt__
FileChange_lt(self, other) == str_lt(self.path, other.path)

\* list.sort() compares with __lt__ only and is stable: each element goes
\* before the first element it is less than.
Inserted(list, x) ==
    LET greater == { i \in 1..Len(list) : FileChange_lt(x, list[i]) }
        at == IF greater = {} THEN Len(list) + 1 ELSE Min(greater)
    IN  SubSeq(list, 1, at - 1) \o <<x>> \o SubSeq(list, at, Len(list))

RECURSIVE list_sort(_)
list_sort(list) ==
    IF list = <<>> THEN <<>>
    ELSE Inserted(list_sort(SubSeq(list, 1, Len(list) - 1)), list[Len(list)])

\* Report with a "return" at the end of the first turn of the loop.
Report_first_only ==
    /\ UNCHANGED removed
    /\ pc = "report"
    /\ pc' = "done"
    /\ UNCHANGED <<markers, scanned>>
    /\ IF result.file_changes # <<>>
       THEN /\ result' = [result EXCEPT !.file_changes = list_sort(@)]
            /\ rendered' = SubSeq(list_sort(result.file_changes), 1, 1)
       ELSE UNCHANGED <<result, rendered>>
    /\ UNCHANGED <<error, module_info, stage, nread, eof, diffs, significant,
                   scan_diffs, triple, sections, returncode, signatures,
                   classes, todo>>

\* analyze: sort the file changes and report them.
Report ==
    /\ UNCHANGED removed
    /\ pc = "report"
    /\ pc' = "done"
    /\ UNCHANGED <<markers, scanned>>
    /\ IF result.file_changes # <<>>
       THEN /\ result' = [result EXCEPT !.file_changes = list_sort(@)]
            /\ rendered' = list_sort(result.file_changes)
       ELSE UNCHANGED <<result, rendered>>
    /\ UNCHANGED <<error, module_info, stage, nread, eof, diffs, significant,
                   scan_diffs, triple, sections, returncode, signatures,
                   classes, todo>>

Next ==
    \/ LoadModuleInfo
    \/ LogLine
    \/ \E exited \in BOOLEAN, code \in {0, 1} : Wait(exited, code)
    \/ Clean
    \/ build_monolithic_stubs_flags
    \/ ForLine
    \/ ScanHeader
    \/ ScanBody
    \/ build_monolithic_flags
    \/ \E found \in BOOLEAN : load_all_flags(found)
    \/ ListDir
    \/ ScanFile
    \/ Manifest
    \/ Report

Spec == Init /\ [][Next]_vars

\* ------------------------------------------ the catalog used by a caller

\* Where a caller of the analyzer is when a call it made returns: before
\* analyze was called, or after analyze returned.
Returned == IF stage = "" THEN "load_module_info" ELSE "done"

\* A caller that holds the BcpfAnalyzer reads one of the two properties, before
\* it calls analyze or after analyze returned, or calls load_all_flags after
\* analyze returned.
Call(op) ==
    /\ UNCHANGED removed
    /\ pc \in {"load_module_info", "done"}
    /\ op = "call_load_all_flags" => pc = "done"
    /\ pc' = op
    /\ UNCHANGED <<error, module_info, stage, nread, eof, diffs, significant,
                   scan_diffs, triple, sections, markers, scanned, returncode,
                   signatures, classes, todo, result, rendered>>

\* analyzer.signatures
ReadSignatures ==
    /\ UNCHANGED removed
    /\ pc = "read_signatures"
    /\ IF signatures_property.raises
       THEN Abort("Exception")
       ELSE /\ pc' = Returned
            /\ UNCHANGED <<error, module_info, stage, nread, eof, diffs,
                           significant, scan_diffs, sections, signatures,
                           classes, todo, result, rendered>>
    /\ UNCHANGED <<triple, returncode, markers, scanned>>

\* analyzer.classes
ReadClasses ==
    /\ UNCHANGED removed
    /\ pc = "read_classes"
    /\ IF classes_property.raises
       THEN Abort("Exception")
       ELSE /\ pc' = Returned
            /\ UNCHANGED <<error, module_info, stage, nread, eof, diffs,
                           significant, scan_diffs, sections, signatures,
                           classes, todo, result, rendered>>
    /\ UNCHANGED <<triple, returncode, markers, scanned>>

\* analyzer.load_all_flags() once more
LoadAllFlagsAgain(found) ==
    /\ pc = "call_load_all_flags"
    /\ LoadAllFlags(found, "done")

NextCatalog ==
    \/ Next
    \/ \E op \in {"read_signatures", "read_classes", "call_load_all_flags"} :
          Call(op)
    \/ ReadSignatures
    \/ ReadClasses
    \/ \E found \in BOOLEAN : LoadAllFlagsAgain(found)

SpecCatalog == Init /\ [][NextCatalog]_vars

\* =================================================================== claims

\* The comma-separated fields of a report line after its two-character
\* prefix: the signature, then the flags.
FieldsOf(line) == split(SubSeq(line, 3, Len(line)), <<",">>)
SignatureOf(entry) == FieldsOf(entry[1])[1]
FlagsOf(entry) == <<Tail(FieldsOf(entry[1])), Tail(FieldsOf(entry[2]))>>

\* The entries recorded from the significant sections of the current output.
SignificantEntries ==
    UNION { { <<SignatureOf(sections[i].body[j]), FlagsOf(sections[i].body[j])>> :
                j \in 1..Len(sections[i].body) } :
            i \in { k \in 1..Len(sections) : sections[k].significant } }

\* C1: when build_hiddenapi_flags is about to return, the dict it returns
\* holds no entry taken from a section whose header does not name the
\* fragment's output directory.
C1_NonSignificantDiscarded ==
    pc = "wait" =>
        \A i \in 1..Len(sections) :
            ~sections[i].significant =>
                \A j \in 1..Len(sections[i].body) :
                    LET entry == sections[i].body[j]
                        signature == SignatureOf(entry)
                    IN  \/ <<signature, FlagsOf(entry)>> \in SignificantEntries
                        \/ signature \notin DOMAIN diffs.map
                        \/ diffs.map[signature] # FlagsOf(entry)

\* The output held exactly one report, that report is significant, and
\* build_hiddenapi_flags is about to return.
SingleSignificantSection ==
    /\ pc = "wait"
    /\ markers = 1
    /\ Len(sections) = 1
    /\ sections[1].significant

\* C2 as stated: with a single significant section, every body triple has an
\* entry under its signature holding the flags of its two lines in order.
C2_EveryTripleRecorded ==
    SingleSignificantSection =>
        /\ ~diffs.isNone
        /\ \A j \in 1..Len(sections[1].body) :
              LET entry == sections[1].body[j]
              IN  /\ SignatureOf(entry) \in DOMAIN diffs.map
                  /\ diffs.map[SignatureOf(entry)] = FlagsOf(entry)

\* C2 as amended: with a single significant section, the dict has exactly the
\* signatures of the body triples as keys, and every body triple whose
\* signature no later triple of the section repeats has its flags, in the
\* order of the input, under its signature.
C2_LastTripleRecorded ==
    SingleSignificantSection =>
        LET body == sections[1].body
        IN  /\ ~diffs.isNone
            /\ DOMAIN diffs.map = { SignatureOf(body[j]) : j \in 1..Len(body) }
            /\ \A j \in 1..Len(body) :
                  (\A k \in (j + 1)..Len(body) :
                      SignatureOf(body[k]) # SignatureOf(body[j]))
                  => diffs.map[SignatureOf(body[j])] = FlagsOf(body[j])

\* A single significant section with "A;->x" twice: the entry has the flags
\* of the second triple, ["p", "q"] and [].
C2_Witness ==
    /\ SingleSignificantSection
    /\ sections[1].body = << <<ModuleA, PlatformA>>, <<ModuleA, PlatformA2>> >>
    /\ diffs.map = [k \in {SigA} |-> << << <<"p">>, <<"q">> >>, <<>> >>]

\* C3: output without a marker line is read to its end, gives None and
\* makes the parser raise nothing.
C3_NoMarkerNoDiffs ==
    /\ (stage \in {"stubs", "flags"} /\ markers = 0 /\ pc \in {"for", "wait"})
          => /\ diffs = None
             /\ pc = "wait" => eof
    /\ (stage = "flags" /\ markers = 0 /\ pc = "load_all_flags")
          => result.diffs = None
    /\ (pc = "aborted" /\ error \in {"SystemExit", "StopIteration"})
          => markers >= 1

\* Three lines without a marker were read, then the output ended: None is
\* about to be returned.
C3_Witness ==
    /\ stage = "flags"
    /\ pc = "wait"
    /\ markers = 0
    /\ nread = 3
    /\ eof
    /\ diffs = None

\* A triple the claim C4 calls malformed.
Malformed(t, in_body) ==
    \/ ~startswith(t[1], ModulePrefix)
    \/ ~startswith(t[2], MonolithicPrefix)
    \/ in_body /\ FieldsOf(t[1])[1] # FieldsOf(t[2])[1]

\* C4: a triple with a wrong prefix, or a body triple with two different
\* signatures, ends the run with sys.exit and no dict is returned.
C4_MalformedTripleAborts ==
    [][ (/\ pc \in {"scan_header", "scan_body"}
         /\ Len(triple') = 3
         /\ Malformed(triple', pc = "scan_body"))
        => (/\ pc' = "aborted"
            /\ error' = "SystemExit"
            /\ result' = result
            /\ result'.diffs = None) ]_vars

\* The run ended at a body triple with the signatures "A;->x" and "B;->y".
C4_Witness ==
    /\ pc = "aborted"
    /\ error = "SystemExit"
    /\ triple = <<ModuleA, PlatformB, <<>> >>

\* C5: output that ends inside a triple ends the run with an error.
C5_TruncatedTripleAborts ==
    (Len(triple) \in {1, 2} /\ startswith(triple[1], ModulePrefix))
        => pc = "aborted"

\* The elements a step appended to a list.
Added(before, after) == SubSeq(after, Len(before) + 1, Len(after))

\* The entries a description lists: its lines without their 12 blanks.
EntriesOf(change) ==
    LET lines == split(change.description.insert, <<"\n">>)
    IN  { SubSeq(lines[i], 13, Len(lines[i])) : i \in 1..Len(lines) }

\* The lines of the flags file read by the step, as a set.
ScannedEntries == { scanned'[i] : i \in 1..Len(scanned') }

\* A step of the scanner that visits a directory entry and does not raise.
ScanStep == pc = "scan_file" /\ pc' # "aborted"

\* C6: the entries of the "remove" change and of the "add" change of a flags
\* file are the entries of the file that are in the catalog; an entry that is
\* not in the catalog is in no change.
C6_MovedEntriesAreCatalogEntries ==
    [][ ScanStep =>
          LET expected == ScannedEntries \cap signatures
              new == Added(result.file_changes, result'.file_changes)
          IN  /\ expected # {} =>
                    /\ Len(new) = 2
                    /\ new[1].description.text = "Remove the following entries:"
                    /\ new[2].description.text = "Add the following entries:"
                    /\ EntriesOf(new[1]) = expected
                    /\ EntriesOf(new[2]) = expected
              /\ LET others == ScannedEntries \ signatures
                     listed == UNION { EntriesOf(result'.file_changes[i]) :
                                          i \in 1..Len(result'.file_changes) }
                 IN  others \cap listed = {}
      ]_vars

\* The catalog is {"A;->x", "B;->y"}, the file holds "A;->x" and "C;->z":
\* both changes list "A;->x" alone.
C6_Witness ==
    /\ pc \in {"scan_file", "manifest"}
    /\ signatures = {SigA, SigB}
    /\ scanned = <<SigA, SigC>>
    /\ Len(result.file_changes) = 2
    /\ result.file_changes[1].description.insert = EntryIndent \o SigA
    /\ result.file_changes[2].description.insert = EntryIndent \o SigA

\* C7: a flags file with an entry in the catalog adds two file changes and
\* one property change, any other directory entry adds nothing; throughout
\* the scan there are twice as many file changes as property changes.
C7_TwoFileChangesPerPropertyChange ==
    [][ ScanStep =>
          LET hit == ScannedEntries \cap signatures # {}
          IN  /\ Len(result.file_changes) = 2 * Len(result.property_changes)
              /\ Len(result'.file_changes) =
                    Len(result.file_changes) + (IF hit THEN 2 ELSE 0)
              /\ Len(result'.property_changes) =
                    Len(result.property_changes) + (IF hit THEN 1 ELSE 0)
              /\ Len(result'.file_changes) = 2 * Len(result'.property_changes)
      ]_vars

\* The scan is over: one file had an entry in the catalog, the file read
\* last had entries and none in the catalog.
C7_Witness ==
    /\ pc = "manifest"
    /\ Len(result.file_changes) = 2
    /\ Len(result.property_changes) = 1
    /\ scanned # <<>>
    /\ { scanned[i] : i \in 1..Len(scanned) } \cap signatures = {}

\* "frameworks/base/boot/hiddenapi/" and the name in that directory
OverridePath(basename) == HiddenapiDir \o <<"/">> \o basename
\* The path of the fragment's file of that name, for the fragment in "art"
FragmentPath(basename) == PathArt \o <<"/">> \o HiddenapiSlash \o basename

\* C8: the fragment's file of hiddenapi-max-target-o.txt is
\* hiddenapi-max-target-o-low-priority.txt, that of
\* hiddenapi-max-target-r-loprio.txt is
\* hiddenapi-max-target-r-low-priority.txt, that of any other file has the
\* file's own name; the "remove" change names the file as it is.
C8_LegacyNamesRemapped ==
    [][ (ScanStep /\ result'.file_changes # result.file_changes) =>
          LET basename == Head(todo)
              new == Added(result.file_changes, result'.file_changes)
              property == result'.property_changes[Len(result'.property_changes)]
              canonical ==
                  IF basename = MaxTargetO THEN MaxTargetOLowPriority
                  ELSE IF basename = MaxTargetRLoprio THEN MaxTargetRLowPriority
                  ELSE basename
          IN  /\ new[1].path = OverridePath(basename)
              /\ new[Len(new)].path = FragmentPath(canonical)
              /\ property.values = <<HiddenapiSlash \o canonical>>
              /\ basename \in {MaxTargetO, MaxTargetRLoprio} =>
                    /\ ~contains(new[Len(new)].path, basename)
                    /\ ~contains(property.values[1], basename)
      ]_vars

\* hiddenapi-max-target-r-loprio.txt had an entry in the catalog.
C8_Witness ==
    \E i \in 1..(Len(result.file_changes) - 1) :
        /\ result.file_changes[i].path = OverridePath(MaxTargetRLoprio)
        /\ result.file_changes[i + 1].path = FragmentPath(MaxTargetRLowPriority)
        /\ result.property_changes[(i + 1) \div 2].values
              = <<HiddenapiSlash \o MaxTargetRLowPriority>>

\* The elements of a list of file changes that have the path.
WithPath(list, path) ==
    LET HasPath(change) == change.path = path
    IN  SelectSeq(list, HasPath)

\* C9: the file changes are reported in non-decreasing order of path, those
\* of equal path in the order in which they were added; what is reported is
\* a permutation of the plan; sorting the sorted plan changes nothing.
C9_ReportSortedStable ==
    [][ pc = "report" =>
          LET before == result.file_changes
              after == rendered'
          IN  /\ Len(after) = Len(before)
              /\ result'.file_changes = after
              /\ \A i, j \in 1..Len(after) :
                    i < j => ~str_lt(after[j].path, after[i].path)
              /\ \A i \in 1..Len(before) :
                    WithPath(after, before[i].path)
                        = WithPath(before, before[i].path)
              /\ list_sort(after) = after
      ]_vars

\* The report begins with the Android.bp change, which was added last, and
\* holds two changes of one path with different descriptions.
C9_Witness ==
    /\ pc = "done"
    /\ Len(rendered) = 5
    /\ rendered[1].path = PathArt \o <<"/">> \o AndroidBp
    /\ rendered[2].path = rendered[3].path
    /\ rendered[2].description # rendered[3].description

\* The file changes of the Android.bp file.
ManifestChanges ==
    { i \in 1..Len(result.file_changes) :
          endswith(result.file_changes[i].path, AndroidBp) }

\* What the snippet holds for a property change: its name, the opening of
\* the list and its value on the next line.
PropertyText(change) ==
    change.property_name \o <<":", " ", "[", "\n">> \o EntryIndent
        \o <<"\"">> \o change.values[1] \o <<"\"", ",">>

\* The texts of the property changes occur in the text from the position on,
\* one after the other.
RECURSIVE InOrder(_, _, _)
InOrder(changes, text, from) ==
    IF changes = <<>> THEN TRUE
    ELSE LET found == { i \in Occurrences(text, PropertyText(changes[1])) :
                           i >= from }
         IN  /\ found # {}
             /\ InOrder(Tail(changes), text, Min(found) + 1)

\* C10: there is at most one Android.bp change; it exists exactly when the
\* scanner has finished and there are property changes, and its snippet
\* holds every property change in the order of the plan.
C10_ManifestChangeOnce ==
    /\ Cardinality(ManifestChanges) <= 1
    /\ ManifestChanges # {} <=>
          (pc \in {"report", "done"} /\ result.property_changes # <<>>)
    /\ \A i \in ManifestChanges :
          InOrder(result.property_changes,
                  result.file_changes[i].description.insert, 1)

\* The run is over with two property changes of different names.
C10_Witness ==
    /\ pc = "done"
    /\ ManifestChanges # {}
    /\ Len(result.property_changes) = 2
    /\ result.property_changes[1].property_name
          # result.property_changes[2].property_name

\* The plan holds nothing and nothing was reported.
EmptyPlan(r, shown) ==
    /\ r.file_changes = <<>>
    /\ r.property_changes = <<>>
    /\ shown = <<>>

\* C11: from the point where all-flags.csv has been read, a run whose flags
\* build gave no diffs (None or an empty dict) never enters the scanner and
\* goes through the manifest and report steps to its end with an empty plan
\* and nothing reported; and a step of the scanner over a file none of whose
\* lines is in the catalog raises nothing and leaves the plan as it was.
C11_NothingToDoCompletes ==
    [][ /\ (pc = "load_all_flags" /\ ~Truthy(result.diffs) /\ pc' # "aborted")
              => pc' = "manifest" /\ EmptyPlan(result', rendered')
        /\ (pc = "manifest" /\ EmptyPlan(result, rendered))
              => pc' = "report" /\ EmptyPlan(result', rendered')
        /\ (pc = "report" /\ EmptyPlan(result, rendered))
              => pc' = "done" /\ error' = "" /\ EmptyPlan(result', rendered')
        /\ (pc = "scan_file" /\ ScannedEntries \cap signatures = {})
              => pc' # "aborted" /\ result' = result
      ]_vars

\* C12: reading the signatures property while _signatures is empty, or the
\* classes property while _classes is empty, raises Exception; no such read
\* returns. The reads are the caller's and the scanner's "signature in
\* self.signatures" for a line of a flags file.
C12_ReadBeforePopulationRaises ==
    [][ /\ (pc = "read_signatures" /\ signatures = {})
              => pc' = "aborted" /\ error' = "Exception"
        /\ (pc = "read_classes" /\ classes = {})
              => pc' = "aborted" /\ error' = "Exception"
        /\ (pc = "scan_file" /\ signatures = {} /\ scanned' # <<>>)
              => pc' = "aborted" /\ error' = "Exception"
      ]_vars

\* A property was read before analyze was called, so before load_all_flags,
\* and the read raised.
C12_Witness ==
    /\ pc = "aborted"
    /\ error = "Exception"
    /\ stage = ""
    /\ signatures = {}
    /\ classes = {}

\* C13: a call of load_all_flags on an analyzer whose catalog already holds
\* signatures raises and leaves _signatures and _classes as they were.
C13_SecondLoadIsFatal ==
    [][ (pc = "call_load_all_flags" /\ signatures # {})
           => /\ pc' = "aborted"
              /\ signatures' = signatures
              /\ classes' = classes
      ]_vars

\* C14: when the wait that follows the end of a build's output finds that the
\* process has not exited (returncode stays None) or that it exited with a
\* status other than 0, the run ends there with an error and no later stage is
\* entered; this for the module-info build, the stub-flags build and the
\* flags-table build.
C14_FailedBuildIsFatal ==
    [][ (pc = "wait" /\ returncode' # 0)
           => pc' = "aborted" /\ error' # ""
      ]_vars

\* C15: nothing of the plan is reported while the run has not reached its
\* end, so nothing is reported in a run that aborts; at the end of a run that
\* completes the whole plan is reported: every file change, among them two
\* for each property change and the Android.bp change when there is a
\* property change.
C15_RenderedAllOrNothing ==
    /\ pc # "done" => rendered = <<>>
    /\ pc = "done" =>
          /\ error = ""
          /\ rendered = result.file_changes
          /\ Len(rendered) = 2 * Len(result.property_changes)
                + (IF result.property_changes # <<>> THEN 1 ELSE 0)

\* A run completed and reported a plan of three file changes, the Android.bp
\* change among them.
C15_Witness ==
    /\ pc = "done"
    /\ Len(rendered) = 3
    /\ \E i \in 1..3 : endswith(rendered[i].path, AndroidBp)

\* C16: what a step of the scanner adds to the plan for a flags file is fixed
\* by the lines of the file and the catalog: the entries listed in the
\* description are the same whatever the order in which the set
\* matched_signatures is iterated.
C16_ReportIndependentOfSetOrder ==
    [][ (ScanStep /\ ScannedEntries \cap signatures # {})
           => \A order \in Orders(ScannedEntries \cap signatures) :
                 Added(result.file_changes, result'.file_changes)[1]
                       .description.insert
                    = textwrap_indent(str_join(<<"\n">>, order), EntryIndent)
      ]_vars

\* C17: the plan of a completed run holds no two property changes of the same
\* property name and no two file changes of the same path.
C17_PlanDeduplicated ==
    pc = "done" =>
        /\ \A i, j \in 1..Len(result.property_changes) :
              i # j => result.property_changes[i].property_name
                          # result.property_changes[j].property_name
        /\ \A i, j \in 1..Len(result.file_changes) :
              i # j => result.file_changes[i].path
                          # result.file_changes[j].path

\* The body entries of the significant sections of the current output, in the
\* order in which they were read.
RECURSIVE SignificantBody(_)
SignificantBody(n) ==
    IF n = 0 THEN <<>>
    ELSE SignificantBody(n - 1)
            \o (IF sections[n].significant THEN sections[n].body ELSE <<>>)

\* C19: when the output held two or more significant sections and
\* build_hiddenapi_flags is about to return, the dict it returns has an entry
\* for every body triple of every significant section, with the flags of the
\* last triple of that signature.
C19_AllSignificantSectionsKept ==
    (pc = "wait"
        /\ Cardinality({ i \in 1..Len(sections) : sections[i].significant }) >= 2)
    => LET body == SignificantBody(Len(sections))
       IN  /\ ~diffs.isNone
           /\ \A j \in 1..Len(body) :
                 /\ SignatureOf(body[j]) \in DOMAIN diffs.map
                 /\ (\A k \in (j + 1)..Len(body) :
                        SignatureOf(body[k]) # SignatureOf(body[j]))
                    => diffs.map[SignatureOf(body[j])] = FlagsOf(body[j])

\* C20: a body triple that passes the checks and whose separator line is not
\* empty is recorded, the dict is returned, and exactly the three lines of
\* the triple have been taken from the output; when the separator is the
\* marker the header triple of a new section is read next, from the three
\* lines that follow, and otherwise the "for" loop takes the line that
\* follows. A marker taken by the "for" loop starts a section.
C20_SeparatorEndsSection ==
    [][ /\ (pc = "scan_body" /\ pc' # "aborted" /\ Len(triple') = 3
               /\ triple'[3] # <<>>)
              => /\ nread' = nread + 3
                 /\ diffs' = Some(scan_diffs')
                 /\ SignatureOf(triple') \in DOMAIN scan_diffs'
                 /\ scan_diffs'[SignatureOf(triple')] = FlagsOf(triple')
                 /\ sections'[Len(sections')].body
                       = Append(sections[Len(sections)].body,
                                <<triple'[1], triple'[2]>>)
                 /\ pc' = IF triple'[3] = INCONSISTENT_FLAGS
                          THEN "scan_header" ELSE "for"
        /\ (pc = "scan_header" /\ pc' # "aborted")
              => /\ pc' = "scan_body"
                 /\ nread' = nread + 3
                 /\ Len(sections') = Len(sections) + 1
                 /\ sections'[Len(sections')].body = <<>>
        /\ (pc = "for" /\ markers' = markers + 1)
              => pc' = "scan_header" /\ nread' = nread + 1
      ]_vars

\* The separator of the first section's only triple was the marker: the
\* second section was opened by the three lines after it, ten lines in all.
C20_Witness ==
    /\ pc = "scan_body"
    /\ markers = 2
    /\ nread = 10
    /\ Len(sections) = 2
    /\ Len(sections[1].body) = 1
    /\ ~diffs.isNone
    /\ triple = <<HeaderOwn, HeaderPlatform, <<>> >>

\* C18 as stated: every file, the output files of the build among them, holds
\* at every point of a run what it held when the run began.
C18_NoFileModified ==
    files = Tree

\* The output files analyze removes once it has the path of the module.
Stale ==
    { f \in OutputFiles :
         \/ startswith(f, join(out_dir, SoongHiddenapi) \o <<"/">>)
         \/ startswith(f, module_out_dir(bcpf) \o <<"/">>) }

\* C18 as amended: the override files, the fragment's flags file and its
\* Android.bp hold at every point of a run, completed or aborted, what they
\* held when it began, also when the plan describes changes of them; of the
\* output files, those below out/soong/hiddenapi and below the fragment's
\* output directory are removed by the cleaning step and no other.
C18_SourceFilesKept ==
    /\ SourceFiles \subseteq files
    /\ OtherOutput \in files
    /\ (pc \in {"load_module_info", "for", "wait", "clean"}
           /\ stage \in {"", "module_info"})
          => files = Tree
    /\ (stage \in {"stubs", "flags"} /\ module_path(module_info, bcpf).ok)
          => files = Tree \ Stale

\* A completed run planned changes of an override file, of the fragment's
\* flags file and of Android.bp; the three files are as they were and the
\* fragment's all-flags.csv is not.
C18_Witness ==
    /\ pc = "done"
    /\ Len(rendered) = 3
    /\ \A i \in 1..3 : join(top_dir, rendered[i].path) \in files
    /\ files # Tree

\* The basenames of the override files the plan removes entries from, in the
\* order of the plan.
Visited ==
    LET IsRemove(change) ==
            change.description.text = "Remove the following entries:"
        removes == SelectSeq(result.file_changes, IsRemove)
    IN  [k \in 1..Len(removes) |->
            removeprefix(removes[k].path, HiddenapiDir \o <<"/">>)]

\* C21: while the scanner runs and until the report is sorted, the override
\* files that gave changes are in the plan in ascending order of their names
\* in the directory, each is a hiddenapi-*.txt file and has its property
\* change at the same position; the names still to visit are in ascending
\* order and come after those visited; the snippet of the Android.bp change
\* holds the property changes in that order.
C21_VisitedInSortedOrder ==
    pc \in {"scan_file", "manifest", "report"} =>
        /\ Len(Visited) = Len(result.property_changes)
        /\ \A k \in 1..Len(Visited) :
              /\ IsFlagsFile(Visited[k])
              /\ result.property_changes[k].property_name
                    = PropertyName(Renamed(Visited[k]))
              /\ \A j \in 1..(k - 1) : str_lt(Visited[j], Visited[k])
              /\ \A t \in 1..Len(todo) : str_lt(Visited[k], todo[t])
        /\ \A t \in 1..Len(todo) :
              \A u \in 1..(t - 1) : str_lt(todo[u], todo[t])
        /\ \A i \in ManifestChanges :
              InOrder(result.property_changes,
                      result.file_changes[i].description.insert, 1)

\* The scanner went through hiddenapi-max-target-o.txt and then
\* hiddenapi-max-target-r-loprio.txt, and both gave changes.
C21_Witness ==
    /\ pc = "manifest"
    /\ Visited = <<MaxTargetO, MaxTargetRLoprio>>

\* C22: _signatures and _classes change in one step of a run only, the call
\* of load_all_flags that follows the flags build, and they are empty before
\* it; that call is made once, and the scanner is entered from it only, so
\* every "signature in self.signatures" of the scanner comes after it and
\* no later step adds or removes a signature or a class.
C22_CatalogPopulatedOnce ==
    [][ /\ (signatures' # signatures \/ classes' # classes)
              => /\ pc = "load_all_flags"
                 /\ signatures = {}
                 /\ classes = {}
        /\ pc' = "load_all_flags" => pc = "wait" /\ stage = "flags"
        /\ pc' = "check_files" => pc = "load_all_flags"
        /\ pc' = "scan_file" => pc \in {"check_files", "scan_file"}
        /\ pc \in {"check_files", "scan_file", "manifest", "report"}
              => signatures' = signatures /\ classes' = classes
      ]_vars

\* The scanner tested the line "C;->z" of a flags file against the catalog
\* of two signatures and two classes.
C22_Witness ==
    /\ pc \in {"scan_file", "manifest"}
    /\ scanned = <<SigC>>
    /\ signatures = {SigA, SigB}
    /\ classes = {<<"A">>, <<"B">>}

\* build_hiddenapi_flags is reading the output of a build.
Scanning ==
    stage \in {"stubs", "flags"} /\ pc \in {"for", "scan_header", "scan_body"}

\* C23: a scan of build output cannot go on forever. Each of its steps goes
\* to the wait for the build's exit, aborts, takes at least one more line of
\* the output, or meets the end of the output, after which the only step
\* left is the one that goes to the wait. A handling of a marker line that
\* does not abort has taken three further lines, so output made of marker
\* lines does not keep the "while" loop going.
C23_ScanTerminates ==
    /\ [](Scanning => nread <= MaxLines /\ (eof => pc = "for"))
    /\ [][ /\ Scanning
              => \/ pc' \in {"wait", "aborted"}
                 \/ Scanning' /\ nread' > nread /\ eof' = eof
                 \/ Scanning' /\ nread' >= nread /\ ~eof /\ eof'
           /\ Scanning /\ eof => pc' = "wait"
           /\ pc = "scan_header"
              => \/ pc' = "aborted"
                 \/ pc' = "scan_body" /\ nread' = nread + 3 /\ Len(triple') = 3
         ]_vars

\* The output was the marker line four times: the handling of the first took
\* the other three as its header triple and the run ended there.
C23_Witness ==
    /\ pc = "aborted"
    /\ error = "SystemExit"
    /\ triple = <<INCONSISTENT_FLAGS, INCONSISTENT_FLAGS, INCONSISTENT_FLAGS>>

\* C24: the header triple of a section is accepted only when its third line
\* is empty; with any other third line, the marker line among them, the run
\* ends with sys.exit and no dict is returned, as it does when the first line
\* does not begin with "< " or the second line does not begin with "> ".
C24_HeaderSeparatorMustBeEmpty ==
    [][ (pc = "scan_header" /\ Len(triple') = 3)
           => /\ pc' = "scan_body" => triple'[3] = <<>>
              /\ (\/ triple'[3] # <<>>
                  \/ ~startswith(triple'[1], ModulePrefix)
                  \/ ~startswith(triple'[2], MonolithicPrefix))
                    => /\ pc' = "aborted"
                       /\ error' = "SystemExit"
                       /\ diffs' = None
                       /\ result' = result
      ]_vars

\* The run ended at a header triple with both prefixes right and the marker
\* line of a following section as its third line.
C24_Witness ==
    /\ pc = "aborted"
    /\ error = "SystemExit"
    /\ triple = <<HeaderOwn, HeaderPlatform, INCONSISTENT_FLAGS>>

\* C25: once the header triple of a section is read, the section goes on
\* until a body triple with a separator line that is not empty, or until the
\* output ends. The separator line read last is empty for as long as the
\* section goes on, and the three lines that follow it are checked as a body
\* triple: they are recorded, or the run ends with sys.exit, which it does
\* when the first of them is a line of another kind.
C25_SectionLeftOnlyAtSeparator ==
    /\ [](pc = "scan_body" => Len(triple) = 3 /\ triple[3] = <<>>)
    /\ [][ /\ (pc = "scan_header" /\ pc' # "aborted") => pc' = "scan_body"
           /\ (pc = "scan_body" /\ pc' \notin {"scan_body", "aborted"})
                 => \/ Len(triple') = 3 /\ triple'[3] # <<>>
                    \/ Len(triple') < 3 /\ eof' /\ pc' = "for"
           /\ (pc = "scan_body" /\ Len(triple') = 3)
                 => IF Malformed(triple', TRUE)
                    THEN pc' = "aborted" /\ error' = "SystemExit"
                    ELSE /\ Len(sections'[Len(sections')].body)
                               = Len(sections[Len(sections)].body) + 1
                         /\ (triple'[3] = <<>>) = (pc' = "scan_body")
         ]_vars

\* The section went on past two empty separator lines: the header triple's
\* and the first body triple's. The second body triple was checked and
\* recorded, and the section is still open.
C25_Witness ==
    /\ pc = "scan_body"
    /\ nread = 10
    /\ Len(sections) = 1
    /\ sections[1].body = << <<ModuleA, PlatformA>>, <<ModuleB, PlatformB>> >>
    /\ triple = <<ModuleB, PlatformB, <<>> >>

====
